---------------------------- MODULE Spec2Model ----------------------------
(***************************************************************************)
(* A model of three pieces of libcrypto:                                   *)
(*   - PKCS1_MGF1, RSA_padding_add_PKCS1_OAEP_mgf1 and                     *)
(*     RSA_padding_check_PKCS1_OAEP_mgf1        (rsa/rsa_oaep.c)           *)
(*   - SM2_sig_gen and SM2_sig_verify           (sm2/sm2_sign.c)           *)
(* Octet strings are sequences of integers in 0..255.  A buffer handed to  *)
(* a function for writing is a sequence whose cells hold -1 until the      *)
(* function stores a byte there.                                           *)
(* The digest (EVP_Digest, EVP_DigestInit_ex/Update/Final_ex), the big     *)
(* numbers and the elliptic-curve group are collaborators whose code is    *)
(* not part of these files; they are modelled by small concrete stand-ins. *)
(***************************************************************************)
EXTENDS Integers, Sequences, FiniteSets, TLC

VARIABLES
    m_pc,      \* PKCS1_MGF1 call: "idle" | "done"
    m_in,      \* its arguments
    m_out,     \* its return value and the mask buffer afterwards
    o_pc,      \* OAEP: "start" | "block" | "decoded"
    o_par,     \* the digests and the modulus length both sides use
    enc,       \* the RSA_padding_add_PKCS1_OAEP_mgf1 call: arguments and results
    blk,       \* the encoded block on its way to the decoder, and the DB it hides
    dec,       \* the RSA_padding_check_PKCS1_OAEP_mgf1 call: arguments and results
    e_mem,     \* the scratch objects of the last encoder call, as it left them
    d_mem,     \* the scratch objects of the last decoder call, as it left them
    sg_pc,     \* SM2_sig_gen: "idle" | "loop" (at the top of for (;;)) | "done"
    sg,        \* its key, pre-hash, last nonce, r, s, restarts so far, result
    s_mem,     \* the scratch objects of SM2_sig_gen, as it left them at done
    vf_pc,     \* SM2_sig_verify: "idle" | "done"
    vf         \* its arguments and results

mgfVars  == <<m_pc, m_in, m_out>>
oaepVars == <<o_pc, o_par, enc, blk, dec, e_mem, d_mem>>
sm2Vars  == <<sg_pc, sg, s_mem, vf_pc, vf>>
vars == <<m_pc, m_in, m_out, o_pc, o_par, enc, blk, dec, e_mem, d_mem,
          sg_pc, sg, s_mem, vf_pc, vf>>

-----------------------------------------------------------------------------
(* Bounds of the model *)

\* longest mask requested from PKCS1_MGF1 by the stand-alone call
MaxMaskLen == 5
\* longest seed handed to PKCS1_MGF1 by the stand-alone call
MaxSeedLen == 2
\* largest modulus length (tlen of the encoder, num of the decoder), in octets
MaxTlen == 6
\* longest message handed to the encoder, and largest output buffer of the decoder
MaxMsgLen == 2
\* largest pre-hash e handed to SM2_sig_gen and SM2_sig_verify
MaxE == 12
\* restarts of the signing loop that are counted; the count stays there afterwards
MaxRestarts == 2

-----------------------------------------------------------------------------
(* Octets and buffers *)

Min(a, b) == IF a < b THEN a ELSE b

\* all sequences over S of length at most n
RECURSIVE SeqsUpTo(_, _)
SeqsUpTo(S, n) ==
    IF n = 0 THEN {<<>>}
    ELSE LET shorter == SeqsUpTo(S, n - 1)
         IN shorter \cup {Append(s, x) : s \in {t \in shorter : Len(t) = n - 1}, x \in S}

SeqsOfLen(S, n) == {s \in SeqsUpTo(S, n) : Len(s) = n}

\* a buffer of n cells nobody has written
FreshBuf(n) == [j \in 1..n |-> -1]

\* the cells of buf that were written
Written(buf) == {j \in 1..Len(buf) : buf[j] >= 0}

\* memcpy(buf + off, bytes, Len(bytes)); a store outside the buffer is not modelled
WriteAt(buf, off, bytes) ==
    [j \in 1..Len(buf) |->
        IF off < j /\ j <= off + Len(bytes) THEN bytes[j - off] ELSE buf[j]]

\* memset(buf + off, 0, n)
ZeroAt(buf, off, n) == WriteAt(buf, off, [j \in 1..n |-> 0])

\* buf[off .. off+n-1] (0-based offset off)
Slice(buf, off, n) == [j \in 1..n |-> buf[off + j]]

RECURSIVE XorBits(_, _, _)
XorBits(a, b, w) ==
    IF w = 0 THEN 0
    ELSE (((a % 2) + (b % 2)) % 2) + (2 * XorBits(a \div 2, b \div 2, w - 1))

\* a ^ b on unsigned char
Xor8(a, b) == XorBits(a, b, 8)

\* for (i = 0; i < Len(a); i++) a[i] ^= b[i]
XorSeq(a, b) == [j \in 1..Len(a) |-> Xor8(a[j], b[j])]

-----------------------------------------------------------------------------
(* The digest collaborator: a deterministic stand-in for EVP_Digest.  A    *)
(* digest descriptor is [size, id]; EVP_MD_size(md) is md.size.            *)

Digests == {[size |-> 1, id |-> 3], [size |-> 2, id |-> 5]}

EVP_MD_size(md) == md.size

RECURSIVE Absorb(_, _)
Absorb(acc, data) ==
    IF data = <<>> THEN acc
    ELSE Absorb((acc * 31 + Head(data) + 1) % 65521, Tail(data))

\* the md.size octets of the digest of data
EVP_Digest(data, md) ==
    LET acc == Absorb(md.id + 7 * Len(data), data)
    IN [j \in 1..md.size |-> (((acc + 1) * (2 * j + 1) * (md.id + 10)) + (acc \div 7)) % 256]

-----------------------------------------------------------------------------
(* PKCS1_MGF1 *)

\* cnt[0..3] as PKCS1_MGF1 fills it from the long i
MGF1_cnt(i) ==
    << (i \div 16777216) % 256, (i \div 65536) % 256, (i \div 256) % 256, i % 256 >>

\* the for loop of PKCS1_MGF1 from counter i and outlen on; digestOk = FALSE
\* makes the first EVP_DigestInit_ex/Update/Final_ex that runs fail
RECURSIVE MGF1_loop(_, _, _, _, _, _, _)
MGF1_loop(mask, outlen, i, len, seed, dgst, digestOk) ==
    IF ~(outlen < len) THEN [rv |-> 0, mask |-> mask]
    ELSE IF ~digestOk THEN [rv |-> -1, mask |-> mask]
    ELSE LET mdlen == EVP_MD_size(dgst)
             md    == EVP_Digest(seed \o MGF1_cnt(i), dgst)
         IN IF outlen + mdlen <= len
            THEN MGF1_loop(WriteAt(mask, outlen, md), outlen + mdlen, i + 1,
                           len, seed, dgst, digestOk)
            ELSE MGF1_loop(WriteAt(mask, outlen, SubSeq(md, 1, len - outlen)), len, i + 1,
                           len, seed, dgst, digestOk)

\* a PKCS1_MGF1 that stores every digest whole, without the final truncation
MGF1_noTruncate(mask, len, seed, dgst, digestOk) ==
    LET mdlen == EVP_MD_size(dgst)
        blocks == (len + mdlen - 1) \div mdlen
        RECURSIVE fill(_, _)
        fill(buf, i) ==
            IF i = blocks THEN buf
            ELSE fill(WriteAt(buf, i * mdlen, EVP_Digest(seed \o MGF1_cnt(i), dgst)), i + 1)
    IN IF digestOk \/ len = 0 THEN [rv |-> 0, mask |-> fill(mask, 0)]
       ELSE [rv |-> -1, mask |-> mask]

\* PKCS1_MGF1(mask, len, seed, seedlen, dgst): [rv, mask afterwards]
PKCS1_MGF1(mask, len, seed, dgst, digestOk) ==
    IF EVP_MD_size(dgst) < 0 THEN [rv |-> -1, mask |-> mask]
    ELSE MGF1_loop(mask, 0, 0, len, seed, dgst, digestOk)

NoCall == [none |-> TRUE]

-----------------------------------------------------------------------------
(* Scratch objects.  Each call leaves a list of the scratch objects it had, *)
(* one record per object as the call left it: where it lives ("heap",       *)
(* "stack", "ctx" for a BIGNUM handed out by BN_CTX_get, "out" for one      *)
(* whose ownership went to the returned object), the octets allocated, the  *)
(* octets the call stored into it, what those octets were, how many octets  *)
(* from its start were zeroed afterwards, and how often it was released.    *)

Scratch(name, kind, size, used, held) ==
    [name |-> name, kind |-> kind, size |-> size, used |-> used, held |-> held,
     zeroed |-> 0, released |-> 0]

\* freezero(ptr, sz): the first sz octets are zeroed, then ptr is freed
freezero(o, sz) == [o EXCEPT !.zeroed = sz, !.released = @ + 1]

\* return: an array of the function's frame goes away as it is
StackReturn(o) == [o EXCEPT !.released = @ + 1]

-----------------------------------------------------------------------------
(* The stand-alone call of PKCS1_MGF1 *)

MGF1SeedOctets == {0, 255}

\* the mask buffer has room for one digest more than len, to see stores past len
MGF1Call ==
    /\ m_pc = "idle"
    /\ \E seed \in SeqsUpTo(MGF1SeedOctets, MaxSeedLen), len \in 0..MaxMaskLen,
          dgst \in Digests, digestOk \in BOOLEAN :
          /\ m_in' = [seed |-> seed, len |-> len, dgst |-> dgst, digestOk |-> digestOk]
          /\ m_out' = PKCS1_MGF1(FreshBuf(len + EVP_MD_size(dgst)), len, seed, dgst, digestOk)
    /\ m_pc' = "done"
    /\ UNCHANGED <<oaepVars, sm2Vars>>

-----------------------------------------------------------------------------
(* RSA_padding_add_PKCS1_OAEP_mgf1 *)

\* unsigned char seedmask[EVP_MAX_MD_SIZE], seed[EVP_MAX_MD_SIZE], phash[EVP_MAX_MD_SIZE]
EVP_MAX_MD_SIZE == 64

\* the separator stored one octet early
OAEP_sepOffset_early(emlen, flen, mdlen) == emlen - flen - mdlen - 2

\* the offset in DB (0-based) of the 0x01 separator: db[emlen - flen - mdlen - 1] = 0x01
OAEP_sepOffset(emlen, flen, mdlen) == emlen - flen - mdlen - 1

\* lines 70-79: to[0] = 0, DB = lHash || PS || 0x01 || from, seed = rnd
\* (seed = to + 1, db = to + mdlen + 1)
OAEP_buildBlock(to, emlen, from, param, md, rnd) ==
    LET mdlen == EVP_MD_size(md)
        flen  == Len(from)
        db    == mdlen + 1
        to1   == WriteAt(to, 0, <<0>>)
        to2   == WriteAt(to1, db, EVP_Digest(param, md))
        to3   == ZeroAt(to2, db + mdlen, emlen - flen - 2 * mdlen - 1)
        to4   == WriteAt(to3, db + OAEP_sepOffset(emlen, flen, mdlen), <<1>>)
        to5   == WriteAt(to4, db + emlen - flen - mdlen, from)
    IN WriteAt(to5, 1, rnd)

\* lines 88-96: db ^= MGF1(seed), seed ^= MGF1(db); fault names the MGF1 call that fails
OAEP_mask(to, emlen, mdlen, mgf1md, fault) ==
    LET db        == mdlen + 1
        dbmasklen == emlen - mdlen
        m1 == PKCS1_MGF1(FreshBuf(dbmasklen), dbmasklen, Slice(to, 1, mdlen), mgf1md,
                         fault # "mgf1_db")
    IN IF m1.rv < 0 THEN [ok |-> FALSE, to |-> to]
       ELSE LET to1 == WriteAt(to, db, XorSeq(Slice(to, db, dbmasklen), m1.mask))
                m2  == PKCS1_MGF1(FreshBuf(EVP_MAX_MD_SIZE), mdlen, Slice(to1, db, dbmasklen),
                                  mgf1md, fault # "mgf1_seed")
            IN IF m2.rv < 0 THEN [ok |-> FALSE, to |-> to1]
               ELSE [ok |-> TRUE,
                     to |-> WriteAt(to1, 1, XorSeq(Slice(to1, 1, mdlen), Slice(m2.mask, 0, mdlen)))]

\* the length checks of lines 60-68: the error raised, or "ok"
OAEP_addCheck(emlen, flen, mdlen) ==
    IF flen > emlen - 2 * mdlen - 1 THEN "RSA_R_DATA_TOO_LARGE_FOR_KEY_SIZE"
    ELSE IF emlen < 2 * mdlen + 1 THEN "RSA_R_KEY_SIZE_TOO_SMALL"
    ELSE "ok"

\* [ret, err (the errors raised), to (the output buffer afterwards)]
RSA_padding_add_PKCS1_OAEP_mgf1(to, tlen, from, param, md, mgf1md, rnd, fault) ==
    LET emlen == tlen - 1
        mdlen == EVP_MD_size(md)
        chk   == OAEP_addCheck(emlen, Len(from), mdlen)
    IN IF chk # "ok" THEN [ret |-> 0, err |-> <<chk>>, to |-> to]
       ELSE IF fault = "digest" THEN [ret |-> 0, err |-> <<>>, to |-> WriteAt(to, 0, <<0>>)]
       ELSE LET built == OAEP_buildBlock(to, emlen, from, param, md, rnd)
            IN IF fault = "malloc"
               THEN [ret |-> 0, err |-> <<"ERR_R_MALLOC_FAILURE">>, to |-> built]
               ELSE LET masked == OAEP_mask(built, emlen, mdlen, mgf1md, fault)
                    IN [ret |-> IF masked.ok THEN 1 ELSE 0, err |-> <<>>, to |-> masked.to]

-----------------------------------------------------------------------------
(* RSA_padding_check_PKCS1_OAEP_mgf1 *)

\* lines 50, 81-103: seedmask[EVP_MAX_MD_SIZE] and the malloc'd dbmask at the return
OAEP_add_scratch(tlen, from, param, md, mgf1md, rnd, fault) ==
    LET mdlen == EVP_MD_size(md)
        emlen == tlen - 1
        noMask == Scratch("seedmask", "stack", EVP_MAX_MD_SIZE, 0, {})
    IN IF OAEP_addCheck(emlen, Len(from), mdlen) # "ok" \/ fault \in {"digest", "malloc"}
       THEN <<StackReturn(noMask)>>
       ELSE
       LET db        == mdlen + 1
           dbmasklen == emlen - mdlen
           to0 == OAEP_buildBlock(FreshBuf(tlen), emlen, from, param, md, rnd)
           m1  == PKCS1_MGF1(FreshBuf(dbmasklen), dbmasklen, Slice(to0, 1, mdlen), mgf1md,
                             fault # "mgf1_db")
           dbmask == Scratch("dbmask", "heap", dbmasklen, Cardinality(Written(m1.mask)),
                             IF Written(m1.mask) = {} THEN {} ELSE {"mask"})
       IN IF m1.rv < 0
          THEN <<freezero(dbmask, dbmasklen), StackReturn(noMask)>>
          ELSE
          LET to1 == WriteAt(to0, db, XorSeq(Slice(to0, db, dbmasklen), m1.mask))
              m2  == PKCS1_MGF1(FreshBuf(EVP_MAX_MD_SIZE), mdlen, Slice(to1, db, dbmasklen),
                                mgf1md, fault # "mgf1_seed")
              seedmask == Scratch("seedmask", "stack", EVP_MAX_MD_SIZE,
                                  Cardinality(Written(m2.mask)),
                                  IF Written(m2.mask) = {} THEN {} ELSE {"mask"})
          IN <<freezero(dbmask, dbmasklen), StackReturn(seedmask)>>

\* a too-long ciphertext is cut to num octets but 'bad' is not set
OAEP_lzero_noBad(num, flen) ==
    IF num - flen < 0 THEN [bad |-> FALSE, lzero |-> 0, flen |-> num]
    ELSE [bad |-> FALSE, lzero |-> num - flen, flen |-> flen]

\* lines 145-157: [bad, lzero, flen] from the decremented num and the caller's flen
OAEP_lzero(num, flen) ==
    IF num - flen < 0 THEN [bad |-> TRUE, lzero |-> 0, flen |-> num]
    ELSE [bad |-> FALSE, lzero |-> num - flen, flen |-> flen]

\* lines 191-193: the index i at which the scan of db[mdlen..dblen-1] stops
RECURSIVE OAEP_scan(_, _, _)
OAEP_scan(db, i, dblen) ==
    IF i < dblen /\ db[i + 1] = 0 THEN OAEP_scan(db, i + 1, dblen) ELSE i

\* a comparison that leaves out the last of the n octets
memcmp_shortByOne(a, b, n) ==
    IF \A j \in 1..(n - 1) : a[j] = b[j] THEN 0 ELSE 1

\* timingsafe_memcmp(a, b, n) as line 188 uses it: 0 when the first n octets agree
timingsafe_memcmp(a, b, n) ==
    IF \A j \in 1..n : a[j] = b[j] THEN 0 ELSE 1

\* lines 188-206 once db and phash are known: [ret, err, to, steps]
OAEP_checkDB(to, tlen, db, dblen, phash, mdlen, bad, steps) ==
    IF timingsafe_memcmp(db, phash, mdlen) # 0 \/ bad
    THEN [ret |-> -1, err |-> <<"RSA_R_OAEP_DECODING_ERROR">>, to |-> to,
          steps |-> steps \o <<"memcmp">>]
    ELSE LET i == OAEP_scan(db, mdlen, dblen)
             st == steps \o <<"memcmp", "scan">>
         IN IF i = dblen \/ db[i + 1] # 1
            THEN [ret |-> -1, err |-> <<"RSA_R_OAEP_DECODING_ERROR">>, to |-> to, steps |-> st]
            ELSE LET mlen == dblen - (i + 1)
                 IN IF tlen < mlen
                    THEN [ret |-> -1, err |-> <<"RSA_R_DATA_TOO_LARGE">>, to |-> to, steps |-> st]
                    ELSE [ret |-> mlen, err |-> <<>>,
                          to |-> WriteAt(to, 0, Slice(db, i + 1, mlen)),
                          steps |-> st \o <<"copy">>]

\* [ret, err, to, steps]; numArg is the modulus length, fault the collaborator call
\* that fails ("none", "malloc", "mgf1_seed", "mgf1_db", "digest")
RSA_padding_check_PKCS1_OAEP_mgf1(to, tlen, from, numArg, param, md, mgf1md, fault) ==
    LET mdlen == EVP_MD_size(md)
        num   == numArg - 1
    IN IF num < 2 * mdlen + 1
       THEN [ret |-> -1, err |-> <<"RSA_R_OAEP_DECODING_ERROR">>, to |-> to, steps |-> <<>>]
       ELSE
       LET lz    == OAEP_lzero(num, Len(from))
           dblen == num - mdlen
       IN IF fault = "malloc"
          THEN [ret |-> -1, err |-> <<"ERR_R_MALLOC_FAILURE">>, to |-> to, steps |-> <<>>]
          ELSE
          LET \* db = malloc(dblen + num), padded_from = db + dblen
              heap1 == ZeroAt(FreshBuf(dblen + num), dblen, lz.lzero)
              heap2 == WriteAt(heap1, dblen + lz.lzero, SubSeq(from, 1, lz.flen))
              maskeddb == Slice(heap2, dblen + mdlen, dblen)
              m1 == PKCS1_MGF1(FreshBuf(EVP_MAX_MD_SIZE), mdlen, maskeddb, mgf1md,
                               fault # "mgf1_seed")
          IN IF m1.rv # 0
             THEN [ret |-> -1, err |-> <<>>, to |-> to, steps |-> <<"padcopy">>]
             ELSE
             LET seed == XorSeq(Slice(m1.mask, 0, mdlen), Slice(heap2, dblen, mdlen))
                 m2 == PKCS1_MGF1(Slice(heap2, 0, dblen), dblen, seed, mgf1md,
                                  fault # "mgf1_db")
             IN IF m2.rv # 0
                THEN [ret |-> -1, err |-> <<>>, to |-> to,
                      steps |-> <<"padcopy", "mgf1_seed">>]
                ELSE IF fault = "digest"
                THEN [ret |-> -1, err |-> <<>>, to |-> to,
                      steps |-> <<"padcopy", "mgf1_seed", "mgf1_db">>]
                ELSE OAEP_checkDB(to, tlen, XorSeq(m2.mask, maskeddb), dblen,
                                  EVP_Digest(param, md), mdlen, lz.bad,
                                  <<"padcopy", "mgf1_seed", "mgf1_db", "digest">>)

\* lines 124-126, 159-218: seed[], phash[] and the malloc'd db (DB in its first
\* dblen octets, the zero-padded ciphertext in the num octets after them) at the return
OAEP_check_scratch(from, numArg, param, md, mgf1md, fault) ==
    LET mdlen == EVP_MD_size(md)
        num   == numArg - 1
        noSeed  == Scratch("seed", "stack", EVP_MAX_MD_SIZE, 0, {})
        noPhash == Scratch("phash", "stack", EVP_MAX_MD_SIZE, 0, {})
    IN IF num < 2 * mdlen + 1 \/ fault = "malloc"
       THEN \* freezero(NULL, 0) at line 217, or the return of line 162
            <<StackReturn(noSeed), StackReturn(noPhash)>>
       ELSE
       LET lz    == OAEP_lzero(num, Len(from))
           dblen == num - mdlen
           heap1 == ZeroAt(FreshBuf(dblen + num), dblen, lz.lzero)
           heap2 == WriteAt(heap1, dblen + lz.lzero, SubSeq(from, 1, lz.flen))
           maskeddb == Slice(heap2, dblen + mdlen, dblen)
           m1 == PKCS1_MGF1(FreshBuf(EVP_MAX_MD_SIZE), mdlen, maskeddb, mgf1md,
                            fault # "mgf1_seed")
           padded == Scratch("db", "heap", dblen + num, Cardinality(Written(heap2)),
                             {"ciphertext"})
       IN IF m1.rv # 0
          THEN <<freezero(padded, dblen), StackReturn(noSeed), StackReturn(noPhash)>>
          ELSE
          LET seedv == XorSeq(Slice(m1.mask, 0, mdlen), Slice(heap2, dblen, mdlen))
              seed  == Scratch("seed", "stack", EVP_MAX_MD_SIZE, mdlen, {"mask", "seed"})
              m2 == PKCS1_MGF1(Slice(heap2, 0, dblen), dblen, seedv, mgf1md,
                               fault # "mgf1_db")
              heap3 == WriteAt(heap2, 0, m2.mask)
          IN IF m2.rv # 0
             THEN <<freezero([padded EXCEPT !.used = Cardinality(Written(heap3)),
                                            !.held = IF Written(m2.mask) = {}
                                                     THEN {"ciphertext"}
                                                     ELSE {"ciphertext", "mask"}], dblen),
                    StackReturn(seed), StackReturn(noPhash)>>
             ELSE
             LET db == [padded EXCEPT !.used = Cardinality(Written(heap3)),
                                      !.held = {"ciphertext", "mask", "DB"}]
                 phash == IF fault = "digest" THEN noPhash
                          ELSE Scratch("phash", "stack", EVP_MAX_MD_SIZE,
                                       Len(EVP_Digest(param, md)), {"lhash"})
             IN <<freezero(db, dblen), StackReturn(seed), StackReturn(phash)>>

-----------------------------------------------------------------------------
(* The OAEP calls *)

NoBlock == [origin |-> "none", em |-> <<>>, db |-> <<>>]

\* octets of the messages, of arc4random_buf's output, of a forged DB's tail
MsgOctets   == {0, 1}
SeedOctets  == {0, 255}
ForgeOctets == {0, 1, 2}
\* the labels (param, plen)
Labels == {<<>>, <<65>>}

EncFaults == {"none", "digest", "malloc", "mgf1_db", "mgf1_seed"}
DecFaults == {"none", "malloc", "mgf1_seed", "mgf1_db", "digest"}

OaepEncode ==
    /\ o_pc = "start"
    /\ \E md \in Digests, mgf1md \in Digests, tlen \in 1..MaxTlen,
          from \in SeqsUpTo(MsgOctets, MaxMsgLen), param \in Labels, fault \in EncFaults :
       \E rnd \in SeqsOfLen(SeedOctets, EVP_MD_size(md)) :
          LET r == RSA_padding_add_PKCS1_OAEP_mgf1(FreshBuf(tlen), tlen, from, param,
                                                    md, mgf1md, rnd, fault)
          IN /\ o_par' = [md |-> md, mgf1md |-> mgf1md, num |-> tlen]
             /\ enc' = [from |-> from, param |-> param, ret |-> r.ret, err |-> r.err,
                        to |-> r.to]
             /\ e_mem' = OAEP_add_scratch(tlen, from, param, md, mgf1md, rnd, fault)
             /\ blk' = IF r.ret = 1
                       THEN [origin |-> "encode", em |-> r.to,
                             db |-> Slice(OAEP_buildBlock(FreshBuf(tlen), tlen - 1, from,
                                                          param, md, rnd),
                                          EVP_MD_size(md) + 1, tlen - 1 - EVP_MD_size(md))]
                       ELSE NoBlock
    /\ o_pc' = "block"
    /\ UNCHANGED <<dec, d_mem, mgfVars, sm2Vars>>

\* a block somebody else built: any DB whose first mdlen octets are a label's digest,
\* masked the way the encoder masks
OaepForge ==
    /\ o_pc = "start"
    /\ \E md \in Digests, mgf1md \in Digests, tlen \in 1..MaxTlen, param \in Labels :
       LET mdlen == EVP_MD_size(md) IN
       /\ tlen - 1 >= 2 * mdlen + 1
       /\ \E tail \in SeqsOfLen(ForgeOctets, tlen - 1 - 2 * mdlen),
             rnd \in SeqsOfLen(SeedOctets, mdlen) :
             LET db == EVP_Digest(param, md) \o tail
                 m  == OAEP_mask(<<0>> \o rnd \o db, tlen - 1, mdlen, mgf1md, "none")
             IN /\ o_par' = [md |-> md, mgf1md |-> mgf1md, num |-> tlen]
                /\ blk' = [origin |-> "forge", em |-> m.to, db |-> db]
    /\ o_pc' = "block"
    /\ UNCHANGED <<enc, dec, e_mem, d_mem, mgfVars, sm2Vars>>

\* what a correct caller passes as 'from' for block em: em without some of its leading
\* zero octets (at least the first)
Stripped(em) ==
    {SubSeq(em, k + 1, Len(em)) : k \in {k \in 1..Len(em) : \A j \in 1..k : em[j] = 0}}

\* ciphertexts longer than num - 1: em whole, and em without its first octet but
\* followed by one octet more
TooLong(em) == {em, SubSeq(em, 2, Len(em)) \o <<0>>}

DecodeCall(from, param, tlen, fault) ==
    LET r == RSA_padding_check_PKCS1_OAEP_mgf1(FreshBuf(tlen), tlen, from, o_par'.num, param,
                                               o_par'.md, o_par'.mgf1md, fault)
    IN /\ dec' = [from |-> from, param |-> param, tlen |-> tlen, fault |-> fault,
                  ret |-> r.ret, err |-> r.err, to |-> r.to, steps |-> r.steps]
       /\ d_mem' = OAEP_check_scratch(from, o_par'.num, param, o_par'.md, o_par'.mgf1md, fault)

OaepDecodeBlock ==
    /\ o_pc = "block"
    /\ blk.origin # "none"
    /\ UNCHANGED <<o_par, enc, blk, e_mem, mgfVars, sm2Vars>>
    /\ \E from \in Stripped(blk.em) \cup TooLong(blk.em), param \in Labels,
          tlen \in 0..MaxMsgLen, fault \in DecFaults :
          DecodeCall(from, param, tlen, fault)
    /\ o_pc' = "decoded"

RawCiphertexts == {<<>>, <<1>>, <<0, 1, 0, 1, 0, 1, 0>>}

OaepDecodeRaw ==
    /\ o_pc = "start"
    /\ \E md \in Digests, mgf1md \in Digests, num \in 1..MaxTlen :
          o_par' = [md |-> md, mgf1md |-> mgf1md, num |-> num]
    /\ UNCHANGED <<enc, blk, e_mem, mgfVars, sm2Vars>>
    /\ \E from \in RawCiphertexts, param \in Labels, tlen \in 0..MaxMsgLen,
          fault \in DecFaults :
          DecodeCall(from, param, tlen, fault)
    /\ o_pc' = "decoded"


-----------------------------------------------------------------------------
(* The big-number and curve collaborators: a prime-order curve             *)
(* y^2 = x^3 + a*x + b over GF(p) with base point G of order n, small      *)
(* enough to enumerate, with n < p as for sm2p256v1.                       *)

SM2Group == [p |-> 13, a |-> 7, b |-> 6, G |-> <<1, 1>>, n |-> 11]

\* the point at infinity
Inf == <<>>

FpInv(x) == CHOOSE y \in 1..(SM2Group.p - 1) : (x * y) % SM2Group.p = 1

EC_add(P, Q) ==
    LET p == SM2Group.p IN
    IF P = Inf THEN Q
    ELSE IF Q = Inf THEN P
    ELSE IF P[1] = Q[1] /\ (P[2] + Q[2]) % p = 0 THEN Inf
    ELSE LET l == IF P = Q
                  THEN ((3 * P[1] * P[1] + SM2Group.a) * FpInv((2 * P[2]) % p)) % p
                  ELSE ((Q[2] - P[2]) * FpInv((Q[1] - P[1]) % p)) % p
             x3 == (l * l - P[1] - Q[1]) % p
         IN <<x3, (l * (P[1] - x3) - P[2]) % p>>

RECURSIVE EC_mul(_, _)
EC_mul(k, P) == IF k = 0 THEN Inf ELSE EC_add(EC_mul(k - 1, P), P)

\* EC_POINT_mul(group, r, g_scalar, point, p_scalar, ctx): g_scalar*G + p_scalar*point
EC_POINT_mul(g_scalar, point, p_scalar) ==
    EC_add(EC_mul(g_scalar, SM2Group.G), EC_mul(p_scalar, point))

\* the points of the group
CurvePoints == {EC_mul(k, SM2Group.G) : k \in 0..(SM2Group.n - 1)}

\* BN_mod_inverse(a, n): [ok, v]; there is none when a is 0 modulo n
BN_mod_inverse(a, n) ==
    IF a % n = 0 THEN [ok |-> FALSE, v |-> 0]
    ELSE [ok |-> TRUE, v |-> CHOOSE y \in 1..(n - 1) : (a * y) % n = 1]

-----------------------------------------------------------------------------
(* SM2_sig_gen *)

\* lines 165-171: try again if r == 0 or r + k == n
SM2_restart_rZeroOnly(r, k, n) == r = 0

SM2_restart(r, k, n) == r = 0 \/ r + k = n

\* one pass through the body of for (;;), lines 144-206, with the RNG's answer rng.
\* The big-number and curve calls fail where the arithmetic has no answer (the
\* affine coordinates of the point at infinity, the inverse of 0 modulo n).
\* ([ok |-> FALSE] or [ok |-> TRUE, k |-> the nonce]):
\* [next ("continue" | "done"), sig, k, r, s, err]
SM2_sig_gen_iter(dA, e, rng) ==
    LET n == SM2Group.n IN
    IF ~rng.ok
    THEN [next |-> "done", sig |-> FALSE, k |-> -1, r |-> -1, s |-> -1,
          err |-> <<"SM2_R_RANDOM_NUMBER_GENERATION_FAILED">>]
    ELSE
    LET k  == rng.k
        kG == EC_POINT_mul(k, Inf, 0)
    IN IF kG = Inf
       THEN [next |-> "done", sig |-> FALSE, k |-> k, r |-> -1, s |-> -1,
             err |-> <<"ERR_R_EC_LIB">>]
       ELSE
       LET x1 == kG[1]
           r  == (e + x1) % n
       IN IF SM2_restart(r, k, n)
          THEN [next |-> "continue", sig |-> FALSE, k |-> k, r |-> r, s |-> -1, err |-> <<>>]
          ELSE
          LET inv == BN_mod_inverse(dA + 1, n)
          IN IF ~inv.ok
             THEN [next |-> "done", sig |-> FALSE, k |-> k, r |-> r, s |-> -1,
                   err |-> <<"ERR_R_BN_LIB">>]
             ELSE LET tmp == k - ((dA * r) % n)
                  IN [next |-> "done", sig |-> TRUE, k |-> k, r |-> r,
                      s |-> (inv.v * tmp) % n, err |-> <<>>]

\* BN_rand_range(k, order): failure, or a nonce in [0, order)
RngAnswers == {[ok |-> FALSE, k |-> 0]} \cup {[ok |-> TRUE, k |-> k] : k \in 0..(SM2Group.n - 1)}

\* the allocations of lines 99-136 that can fail: BN_new for order, EC_POINT_new,
\* BN_CTX_new, and BN_new for r, for s, or for both
AllocPoints == {"order", "kG", "ctx", "r", "s", "rs"}

\* BN_free(a): the words of a are cleared and a is freed
BN_free(o) == [o EXCEPT !.zeroed = o.size, !.released = @ + 1]

\* BN_CTX_free(ctx) for one BIGNUM that BN_CTX_get handed out: cleared and freed
BN_CTX_free(o) == [o EXCEPT !.zeroed = o.size, !.released = @ + 1]

\* EC_POINT_free(point): the coordinates are cleared and the point is freed
EC_POINT_free(o) == [o EXCEPT !.zeroed = o.size, !.released = @ + 1]

\* lines 99-136 and 209-218: the objects SM2_sig_gen allocated, as 'done:' leaves
\* them.  failAt is the allocation that failed ("none": all succeeded), haveSig
\* whether sig is returned, kDrawn whether BN_rand_range filled k, sComputed whether
\* line 194 stored s.  Sizes are in BIGNUMs.
SM2_sig_gen_scratch(failAt, haveSig, kDrawn, sComputed) ==
    LET order == IF failAt = "order" THEN <<>>
                 ELSE <<BN_free(Scratch("order", "heap", 1, 1, {"order"}))>>
        hasKG == failAt \notin {"order", "kG"}
        kG    == IF ~hasKG THEN <<>>
                 ELSE <<EC_POINT_free(Scratch("kG", "heap", 1, IF kDrawn THEN 1 ELSE 0,
                                              IF kDrawn THEN {"kG"} ELSE {}))>>
        hasCtx == hasKG /\ failAt # "ctx"
        ctx   == IF ~hasCtx THEN <<>>
                 ELSE <<BN_CTX_free(Scratch("k", "ctx", 1, IF kDrawn THEN 1 ELSE 0,
                                            IF kDrawn THEN {"k"} ELSE {})),
                        BN_CTX_free(Scratch("rk", "ctx", 1, 0, {})),
                        BN_CTX_free(Scratch("x1", "ctx", 1, IF kDrawn THEN 1 ELSE 0,
                                            IF kDrawn THEN {"x1"} ELSE {})),
                        BN_CTX_free(Scratch("tmp", "ctx", 1, IF sComputed THEN 1 ELSE 0,
                                            IF sComputed THEN {"tmp"} ELSE {}))>>
        rObj  == Scratch("r", IF haveSig THEN "out" ELSE "heap", 1,
                         IF kDrawn THEN 1 ELSE 0, IF kDrawn THEN {"r"} ELSE {})
        sObj  == Scratch("s", IF haveSig THEN "out" ELSE "heap", 1,
                         IF sComputed THEN 1 ELSE 0, IF sComputed THEN {"s"} ELSE {})
        r     == IF ~hasCtx \/ failAt \in {"r", "rs"} THEN <<>>
                 ELSE IF haveSig THEN <<rObj>> ELSE <<BN_free(rObj)>>
        s     == IF ~hasCtx \/ failAt \in {"s", "rs"} THEN <<>>
                 ELSE IF haveSig THEN <<sObj>> ELSE <<BN_free(sObj)>>
    IN r \o s \o order \o ctx \o kG

\* lines 85-141: the key, the pre-hash and the scratch objects
SigGenBegin ==
    /\ sg_pc = "idle" /\ vf_pc = "idle"
    /\ \E dA \in 1..(SM2Group.n - 1), e \in 0..MaxE, allocOk \in BOOLEAN :
          /\ sg' = [dA |-> dA, e |-> e, k |-> -1, r |-> -1, s |-> -1, restarts |-> 0,
                    ret |-> IF allocOk THEN "none" ELSE "null",
                    err |-> IF allocOk THEN <<>> ELSE <<"ERR_R_MALLOC_FAILURE">>]
          /\ sg_pc' = IF allocOk THEN "loop" ELSE "done"
          /\ IF allocOk THEN s_mem' = <<>>
             ELSE \E at \in AllocPoints : s_mem' = SM2_sig_gen_scratch(at, FALSE, FALSE, FALSE)
    /\ UNCHANGED <<vf_pc, vf, mgfVars, oaepVars>>

SigGenIter ==
    /\ sg_pc = "loop"
    /\ \E rng \in RngAnswers :
          LET it == SM2_sig_gen_iter(sg.dA, sg.e, rng)
          IN /\ sg' = [sg EXCEPT !.k = it.k, !.r = it.r, !.s = it.s,
                                 !.restarts = IF it.next = "continue"
                                              THEN Min(sg.restarts + 1, MaxRestarts)
                                              ELSE sg.restarts,
                                 !.ret = IF it.next = "continue" THEN "none"
                                         ELSE IF it.sig THEN "sig" ELSE "null",
                                 !.err = it.err]
             /\ sg_pc' = IF it.next = "continue" THEN "loop" ELSE "done"
             /\ s_mem' = IF it.next = "continue" THEN <<>>
                         ELSE SM2_sig_gen_scratch("none", it.sig, it.k # -1, it.s # -1)
    /\ UNCHANGED <<vf_pc, vf, mgfVars, oaepVars>>

-----------------------------------------------------------------------------
(* SM2_sig_verify *)

\* lines 276-284: r and s are both in [1, n-1]
SM2_inRange_upToN(r, s, n) == ~(r < 1 \/ s < 1) /\ ~(n < r \/ n < s)

SM2_inRange(r, s, n) == ~(r < 1 \/ s < 1) /\ ~(n <= r \/ n <= s)

\* [ret, err, steps] for public key PA, signature (r, s) and pre-hash e
SM2_sig_verify(PA, r, s, e) ==
    LET n == SM2Group.n IN
    IF ~SM2_inRange(r, s, n)
    THEN [ret |-> 0, err |-> <<"SM2_R_BAD_SIGNATURE">>, steps |-> <<"range">>]
    ELSE
    LET t == (r + s) % n
    IN IF t = 0
       THEN [ret |-> 0, err |-> <<"SM2_R_BAD_SIGNATURE">>, steps |-> <<"range", "modadd">>]
       ELSE
       LET pt == EC_POINT_mul(s, PA, t)
       IN IF pt = Inf
          THEN [ret |-> 0, err |-> <<"ERR_R_EC_LIB">>,
                steps |-> <<"range", "modadd", "mul">>]
          ELSE [ret |-> IF r = (e + pt[1]) % n THEN 1 ELSE 0, err |-> <<>>,
                steps |-> <<"range", "modadd", "mul", "affine", "cmp">>]

VerifyCall(own, PA, r, s, e) ==
    LET v == SM2_sig_verify(PA, r, s, e)
    IN vf' = [own |-> own, PA |-> PA, r |-> r, s |-> s, e |-> e,
              ret |-> v.ret, err |-> v.err, steps |-> v.steps]

\* the signature SM2_sig_gen returned, verified under the same key and pre-hash
SigVerifyOwn ==
    /\ sg_pc = "done" /\ sg.ret = "sig" /\ vf_pc = "idle"
    /\ VerifyCall(TRUE, EC_mul(sg.dA, SM2Group.G), sg.r, sg.s, sg.e)
    /\ vf_pc' = "done"
    /\ UNCHANGED <<sg_pc, sg, s_mem, mgfVars, oaepVars>>

\* any pair (r, s), in range or not, under any key
SigVerifyAny ==
    /\ sg_pc = "idle" /\ vf_pc = "idle"
    /\ \E PA \in CurvePoints \ {Inf}, e \in 0..MaxE,
          r \in (-1)..(SM2Group.n + 1), s \in (-1)..(SM2Group.n + 1) :
          VerifyCall(FALSE, PA, r, s, e)
    /\ vf_pc' = "done"
    /\ UNCHANGED <<sg_pc, sg, s_mem, mgfVars, oaepVars>>

-----------------------------------------------------------------------------
(* Specifications *)

Init ==
    /\ m_pc = "idle"
    /\ m_in = NoCall
    /\ m_out = NoCall
    /\ o_pc = "start"
    /\ o_par = NoCall
    /\ enc = NoCall
    /\ blk = NoBlock
    /\ dec = NoCall
    /\ e_mem = <<>>
    /\ d_mem = <<>>
    /\ sg_pc = "idle"
    /\ sg = NoCall
    /\ s_mem = <<>>
    /\ vf_pc = "idle"
    /\ vf = NoCall

NextMGF1 == MGF1Call

SpecMGF1 == Init /\ [][NextMGF1]_vars

NextOAEP ==
    \/ OaepEncode
    \/ OaepForge
    \/ OaepDecodeBlock
    \/ OaepDecodeRaw

SpecOAEP == Init /\ [][NextOAEP]_vars

NextSM2 ==
    \/ SigGenBegin
    \/ SigGenIter
    \/ SigVerifyOwn
    \/ SigVerifyAny

SpecSM2 == Init /\ [][NextSM2]_vars

\* SM2_sig_gen runs on the caller's thread until it returns: an iteration of its
\* loop that can run does run
FairSpecSM2 == Init /\ [][NextSM2]_vars /\ WF_vars(SigGenIter)

-----------------------------------------------------------------------------
(* C7: MGF1 output.  When the digest works, PKCS1_MGF1 returns 0, stores   *)
(* exactly the cells mask[0..len-1], and they are the first len octets of  *)
(* T_0 || T_1 || ... with T_i = digest(seed || I2OSP(i, 4)),               *)
(* i = 0 .. ceil(len/hLen) - 1; the output is a function of the inputs.    *)

\* I2OSP(i, 4): the 4-octet big-endian integer i
I2OSP4(i) == [j \in 1..4 |-> (i \div (256 ^ (4 - j))) % 256]

RECURSIVE MGF1_T(_, _, _)
MGF1_T(seed, dgst, blocks) ==
    IF blocks = 0 THEN <<>>
    ELSE MGF1_T(seed, dgst, blocks - 1) \o EVP_Digest(seed \o I2OSP4(blocks - 1), dgst)

MGF1_expected(seed, len, dgst) ==
    LET hLen == dgst.size
    IN SubSeq(MGF1_T(seed, dgst, (len + hLen - 1) \div hLen), 1, len)

C7_MGF1Output ==
    (m_pc = "done" /\ m_in.digestOk) =>
        /\ m_out.rv = 0
        /\ Written(m_out.mask) = 1..m_in.len
        /\ SubSeq(m_out.mask, 1, m_in.len) = MGF1_expected(m_in.seed, m_in.len, m_in.dgst)

\* a mask that needs a truncated last digest and a counter above 0 was produced
C7_Witness ==
    /\ m_pc = "done" /\ m_in.digestOk
    /\ m_in.len > m_in.dgst.size
    /\ m_in.len % m_in.dgst.size # 0
    /\ m_out.rv = 0

-----------------------------------------------------------------------------
(* What the decoder is given, computed the way section 4.3 of the          *)
(* specification words it (steps 2 to 5), for stating the claims.          *)

\* the ciphertext zero-padded (or cut) to emLen octets
RefPadded(from, emLen) ==
    IF Len(from) > emLen THEN SubSeq(from, 1, emLen)
    ELSE [j \in 1..(emLen - Len(from)) |-> 0] \o from

\* DB = maskedDB XOR mgf1(seed, dbLen), seed = maskedSeed XOR mgf1(maskedDB, hLen)
RefDB(from, modLen, md, mgf1md) ==
    LET hLen  == md.size
        emLen == modLen - 1
        P     == RefPadded(from, emLen)
        maskedSeed == SubSeq(P, 1, hLen)
        maskedDB   == SubSeq(P, hLen + 1, emLen)
        seed == XorSeq(maskedSeed, MGF1_expected(maskedDB, hLen, mgf1md))
    IN XorSeq(maskedDB, MGF1_expected(seed, emLen - hLen, mgf1md))

\* the decoder ran, its modulus-length check passed and no collaborator failed
DecodedPastModulusCheck ==
    /\ o_pc = "decoded"
    /\ dec.fault = "none"
    /\ o_par.num >= 2 * o_par.md.size + 2

DecDB == RefDB(dec.from, o_par.num, o_par.md, o_par.mgf1md)

\* the four padding failures
FailTooLong == Len(dec.from) > o_par.num - 1
FailHash    == SubSeq(DecDB, 1, o_par.md.size) # EVP_Digest(dec.param, o_par.md)
FailNoSep   == \A j \in (o_par.md.size + 1)..Len(DecDB) : DecDB[j] = 0
FailBadSep  ==
    \E j \in (o_par.md.size + 1)..Len(DecDB) :
        /\ DecDB[j] \notin {0, 1}
        /\ \A i \in (o_par.md.size + 1)..(j - 1) : DecDB[i] = 0

DecodingErrorOutcome ==
    /\ dec.ret = -1
    /\ dec.err = <<"RSA_R_OAEP_DECODING_ERROR">>
    /\ Written(dec.to) = {}

\* 'from' is em without k >= 1 leading octets, all of them zero
IsStripped(from, em) ==
    /\ Len(from) < Len(em)
    /\ \A j \in 1..(Len(em) - Len(from)) : em[j] = 0
    /\ from = SubSeq(em, Len(em) - Len(from) + 1, Len(em))

-----------------------------------------------------------------------------
(* C1: OAEP round trip.  When the encoder succeeds on msg (so tlen >=       *)
(* 2*hLen+2 and |msg| <= tlen-2*hLen-2) and wrote the tlen-octet block EM   *)
(* with a leading zero, the decoder called with num = tlen, the same label  *)
(* and digests, an output buffer of at least |msg| octets and EM without    *)
(* its leading zero octet(s) returns |msg| and stores exactly msg.          *)

C1_OaepRoundTrip ==
    (/\ o_pc = "decoded" /\ blk.origin = "encode" /\ dec.fault = "none"
     /\ IsStripped(dec.from, enc.to)
     /\ dec.param = enc.param
     /\ dec.tlen >= Len(enc.from))
    => /\ enc.ret = 1
       /\ Len(enc.to) = o_par.num /\ Written(enc.to) = 1..o_par.num /\ enc.to[1] = 0
       /\ o_par.num >= 2 * o_par.md.size + 2
       /\ Len(enc.from) <= o_par.num - 2 * o_par.md.size - 2
       /\ dec.ret = Len(enc.from)
       /\ Written(dec.to) = 1..Len(enc.from)
       /\ SubSeq(dec.to, 1, Len(enc.from)) = enc.from

\* a two-octet message came back from a block stripped of more than one zero octet,
\* with an MGF1 digest different from the label digest
C1_Witness ==
    /\ o_pc = "decoded" /\ blk.origin = "encode" /\ dec.fault = "none"
    /\ IsStripped(dec.from, enc.to) /\ Len(dec.from) < o_par.num - 1
    /\ dec.param = enc.param
    /\ o_par.md # o_par.mgf1md
    /\ Len(enc.from) = 2 /\ dec.ret = 2 /\ SubSeq(dec.to, 1, 2) = enc.from

-----------------------------------------------------------------------------
(* C5: one error kind for every padding failure.  Once the modulus-length  *)
(* check has passed (and no allocation or digest call failed), a           *)
(* ciphertext longer than num-1, a label-hash mismatch in DB[0..hLen), no  *)
(* nonzero octet after the hash, and a first nonzero octet other than 0x01 *)
(* all end the same way: -1, the one error RSA_R_OAEP_DECODING_ERROR, and  *)
(* nothing stored in the output buffer.                                    *)

C5_OneErrorKind ==
    (DecodedPastModulusCheck /\ (FailTooLong \/ FailHash \/ FailNoSep \/ FailBadSep))
    => DecodingErrorOutcome

\* a block whose only defect is a first nonzero octet that is not 0x01 was rejected
C5_Witness ==
    /\ DecodedPastModulusCheck
    /\ ~FailTooLong /\ ~FailHash /\ ~FailNoSep /\ FailBadSep
    /\ DecodingErrorOutcome

-----------------------------------------------------------------------------
(* C6: OAEP label binding.  A block the encoder produced with label L1 is  *)
(* rejected by the decoder called with a label L2 whose digest differs:    *)
(* the result is -1 with RSA_R_OAEP_DECODING_ERROR, never a plaintext.     *)

C6_LabelBinding ==
    (/\ o_pc = "decoded" /\ blk.origin = "encode" /\ dec.fault = "none"
     /\ EVP_Digest(dec.param, o_par.md) # EVP_Digest(enc.param, o_par.md))
    => DecodingErrorOutcome

\* a well-formed block for one label, correctly stripped, was rejected under the other
C6_Witness ==
    /\ o_pc = "decoded" /\ blk.origin = "encode" /\ dec.fault = "none"
    /\ IsStripped(dec.from, enc.to)
    /\ dec.param # enc.param
    /\ EVP_Digest(dec.param, o_par.md) # EVP_Digest(enc.param, o_par.md)
    /\ dec.tlen >= Len(enc.from)
    /\ DecodingErrorOutcome

-----------------------------------------------------------------------------
(* C8: OAEP encode error kinds.  A modulus too small for the digest        *)
(* (emLen < 2*hLen+2) fails with KeySizeTooSmall; a large-enough modulus   *)
(* with mLen > emLen-2*hLen-2 fails with DataTooLargeForKeySize; a call    *)
(* meeting both preconditions fails with neither.                          *)

EncErrs == {enc.err[j] : j \in 1..Len(enc.err)}

C8_EncodeErrorKinds ==
    (o_pc # "start" /\ enc # NoCall) =>
        LET emLen == o_par.num
            hLen  == o_par.md.size
            mLen  == Len(enc.from)
        IN /\ (emLen < 2 * hLen + 2) =>
                  (enc.ret = 0 /\ enc.err = <<"RSA_R_KEY_SIZE_TOO_SMALL">>)
           /\ (emLen >= 2 * hLen + 2 /\ mLen > emLen - 2 * hLen - 2) =>
                  (enc.ret = 0 /\ enc.err = <<"RSA_R_DATA_TOO_LARGE_FOR_KEY_SIZE">>)
           /\ (emLen >= 2 * hLen + 2 /\ mLen <= emLen - 2 * hLen - 2) =>
                  EncErrs \cap {"RSA_R_KEY_SIZE_TOO_SMALL",
                                "RSA_R_DATA_TOO_LARGE_FOR_KEY_SIZE"} = {}

-----------------------------------------------------------------------------
(* C9: no early return in the decoder.  Once the modulus-length check has  *)
(* passed, the steps run are the same for every ciphertext of a given      *)
(* length: zero-padding copy, both MGF1 unmaskings, label hash, hash       *)
(* comparison and the scan for the 0x01 separator, the scan also when the  *)
(* hash comparison fails or 'bad' is set.                                  *)

DecodeAllSteps == <<"padcopy", "mgf1_seed", "mgf1_db", "digest", "memcmp", "scan">>

C9_NoEarlyReturn ==
    DecodedPastModulusCheck =>
        /\ Len(dec.steps) >= Len(DecodeAllSteps)
        /\ SubSeq(dec.steps, 1, Len(DecodeAllSteps)) = DecodeAllSteps

-----------------------------------------------------------------------------
(* C2: SM2 round trip.  Whenever SM2_sig_gen returns a signature (r, s)    *)
(* for a valid key (dA in [1, n-1], PA = [dA]G) and a pre-hash e,          *)
(* SM2_sig_verify of that (r, s) under the same key and e returns 1.       *)

C2_SM2RoundTrip ==
    (vf_pc = "done" /\ vf.own) => vf.ret = 1

-----------------------------------------------------------------------------
(* C3: SM2 verification rejects out-of-range components.  For every key    *)
(* and pre-hash, a pair with r or s outside [1, n-1] is never accepted,    *)
(* and it is rejected by the range check, before (r+s) mod n or any point  *)
(* computation.                                                            *)

C3_VerifyRejectsOutOfRange ==
    (/\ vf_pc = "done"
     /\ (vf.r \notin 1..(SM2Group.n - 1) \/ vf.s \notin 1..(SM2Group.n - 1)))
    => /\ vf.ret = 0
       /\ vf.err = <<"SM2_R_BAD_SIGNATURE">>
       /\ vf.steps = <<"range">>

\* r = n with s in range was rejected at the range check
C3_Witness ==
    /\ vf_pc = "done"
    /\ vf.r = SM2Group.n /\ vf.s \in 1..(SM2Group.n - 1)
    /\ vf.ret = 0 /\ vf.steps = <<"range">>

-----------------------------------------------------------------------------
(* C4: SM2 signature range.  Every signature (r, s) SM2_sig_gen returns    *)
(* has 1 <= r < n and 1 <= s < n, and its nonce k has r + k # n.           *)

C4_SignatureRange ==
    (sg_pc = "done" /\ sg.ret = "sig") =>
        /\ 1 <= sg.r /\ sg.r < SM2Group.n
        /\ 1 <= sg.s /\ sg.s < SM2Group.n
        /\ sg.r + sg.k # SM2Group.n

-----------------------------------------------------------------------------
(* C10: the SM2 signing loop is bounded.  For every behaviour of the RNG   *)
(* signature generation terminates: a call that entered the loop returns.  *)

C10_SignTerminates == (sg_pc = "loop") ~> (sg_pc = "done")

(* C10 as amended: the loop has no retry cap.  An iteration goes round     *)
(* again exactly when its nonce gives r = 0 or r + k = n, each time however *)
(* often that happened before; any other nonce, or a failing RNG, ends the *)
(* call in that iteration; no retry-exhausted error is raised.             *)

C10_RestartIffBadNonce ==
    [][ sg_pc = "loop" =>
          /\ sg_pc' \in {"loop", "done"}
          /\ (sg_pc' = "loop") <=>
                (/\ sg'.k \in 0..(SM2Group.n - 1)
                 /\ (sg'.r = 0 \/ sg'.r + sg'.k = SM2Group.n))
          /\ (sg_pc' = "loop") =>
                sg'.restarts = IF sg.restarts < MaxRestarts THEN sg.restarts + 1
                               ELSE MaxRestarts
          /\ \A j \in 1..Len(sg'.err) : sg'.err[j] # "SignRetryExhausted"
      ]_vars

\* the loop went round MaxRestarts times, the last time because r + k = n
C10_Witness ==
    /\ sg_pc = "loop"
    /\ sg.restarts = MaxRestarts
    /\ sg.r # 0 /\ sg.r + sg.k = SM2Group.n


-----------------------------------------------------------------------------
(* Zeroing and release of scratch objects *)

\* what a transient buffer must not keep when it is released
Sensitive == {"seed", "DB", "mask", "k", "s"}

\* a heap or context object is zeroed over all it was allocated, a stack buffer
\* over all that was stored into it
ZeroedAtRelease(o) ==
    IF o.kind = "stack" THEN o.zeroed >= o.used ELSE o.zeroed = o.size

\* every object of the list that stayed with the function was released exactly once,
\* and zeroed if it held any of the sensitive values
ScratchClean(mem) ==
    \A i \in 1..Len(mem) :
        mem[i].kind # "out" =>
            /\ mem[i].released = 1
            /\ (mem[i].held \cap Sensitive # {}) => ZeroedAtRelease(mem[i])

EncodeScratchClean == ScratchClean(e_mem)

DecodeScratchClean == ScratchClean(d_mem)

SigGenScratchClean == sg_pc = "done" => ScratchClean(s_mem)

\* every scratch object is released exactly once, whatever the exit
ReleasedOnce ==
    \A mem \in {e_mem, d_mem, s_mem} :
        \A i \in 1..Len(mem) : mem[i].kind # "out" => mem[i].released = 1

\* C11: on the success path and on every error path of the OAEP encoder, the OAEP
\* decoder and SM2_sig_gen, every transient buffer that held the seed, DB, a mask,
\* the nonce k or the intermediate s is zeroed by the time it is released (a heap
\* buffer over its full allocated size, a stack buffer before the return), and
\* every allocated scratch object is released exactly once.
C11_ZeroedBeforeRelease ==
    /\ EncodeScratchClean
    /\ DecodeScratchClean
    /\ SigGenScratchClean

=============================================================================
